---------------------------- MODULE Spec2Model ----------------------------
(* A model of dokdash: the /api/config aggregation endpoint               *)
(* (src/src/index.tsx), the schema helpers (src/unnamed/part_001, the     *)
(* module imported as ./lib/dokploy) and the App component               *)
(* (src/src/App.tsx).                                                     *)
EXTENDS Integers, Sequences, FiniteSets, TLC

(**************************************************************************)
(* JavaScript values.  A value is a record tagged by its kind, so that    *)
(* undefined, null and the typed values stay distinct and comparable.     *)
(**************************************************************************)
Undefined == [kind |-> "undefined"]
Null == [kind |-> "null"]
Str(s) == [kind |-> "string", v |-> s]
Num(n) == [kind |-> "number", v |-> n]
Bool(b) == [kind |-> "boolean", v |-> b]
Arr(items) == [kind |-> "array", items |-> items]

\* x == null || x === undefined, the test behind ?? and ?.
Nullish(x) == x.kind \in {"undefined", "null"}

\* ToBoolean, as used by !x, x ? a : b and x && y.
Truthy(x) ==
    CASE x.kind = "undefined" -> FALSE
      [] x.kind = "null" -> FALSE
      [] x.kind = "boolean" -> x.v
      [] x.kind = "number" -> x.v # 0
      [] x.kind = "string" -> x.v # ""
      [] OTHER -> TRUE

\* a ?? b
Coalesce(a, b) == IF Nullish(a) THEN b ELSE a

\* The concatenation of a sequence of sequences, in order.
RECURSIVE ConcatAll(_)
ConcatAll(seqs) ==
    IF seqs = <<>> THEN <<>> ELSE Head(seqs) \o ConcatAll(Tail(seqs))

\* The string made of the characters of cs, in order.
RECURSIVE Join(_)
Join(cs) == IF cs = <<>> THEN "" ELSE Head(cs) \o Join(Tail(cs))

(**************************************************************************)
(* lib/dokploy: resolveDomainUrl and resourceSections.                    *)
(**************************************************************************)
\* `:${domain.port}` of a number: its decimal digits.
NumberToString(n) == ToString(n)

resolveDomainUrl_PortWhenDefined(domain) ==
    IF Nullish(domain) \/ ~Truthy(domain.host) THEN Null
    ELSE LET protocol == IF Truthy(domain.https) THEN "https" ELSE "http"
             port == IF domain.port.kind = "number"
                     THEN ":" \o NumberToString(domain.port.v) ELSE ""
             path == IF Truthy(domain.path) /\ domain.path.v # "/"
                     THEN domain.path.v ELSE ""
         IN  Str(protocol \o "://" \o domain.host.v \o port \o path)

resolveDomainUrl(domain) ==
    IF Nullish(domain) \/ ~Truthy(domain.host) THEN Null
    ELSE LET protocol == IF Truthy(domain.https) THEN "https" ELSE "http"
             port == IF Truthy(domain.port)
                     THEN ":" \o NumberToString(domain.port.v) ELSE ""
             path == IF Truthy(domain.path) /\ domain.path.v # "/"
                     THEN domain.path.v ELSE ""
         IN  Str(protocol \o "://" \o domain.host.v \o port \o path)

resourceSections ==
    << [key |-> "applications", label |-> "Applications"],
       [key |-> "compose", label |-> "Compose Stacks"],
       [key |-> "postgres", label |-> "Postgres"],
       [key |-> "mysql", label |-> "MySQL"],
       [key |-> "mariadb", label |-> "MariaDB"],
       [key |-> "mongo", label |-> "MongoDB"],
       [key |-> "redis", label |-> "Redis"] >>

(**************************************************************************)
(* App.tsx: flattenProjects.                                              *)
(**************************************************************************)
\* The strings that occur as project names and titles, in the order of the
\* default collation (case is a tie-breaker only: "api" sorts before "App").
CollationOrder ==
    << "api", "App", "Blog", "db", "svc", "Unnamed project",
       "Untitled resource", "web" >>

CollationRank(s) == CHOOSE i \in 1..Len(CollationOrder) : CollationOrder[i] = s

\* a.localeCompare(b): negative, zero or positive.
localeCompare(a, b) ==
    IF CollationRank(a) < CollationRank(b) THEN -1
    ELSE IF CollationRank(a) > CollationRank(b) THEN 1 ELSE 0

\* The comparator handed to entries.sort.
compareEntries(a, b) ==
    IF a.projectName # b.projectName
    THEN localeCompare(a.projectName, b.projectName)
    ELSE localeCompare(a.title, b.title)

\* Array.prototype.sort is stable: e goes after the last element that does
\* not compare greater than it.
RECURSIVE InsertSorted(_, _)
InsertSorted(sorted, e) ==
    IF sorted = <<>> THEN <<e>>
    ELSE LET last == sorted[Len(sorted)]
         IN  IF compareEntries(last, e) <= 0 THEN Append(sorted, e)
             ELSE Append(InsertSorted(SubSeq(sorted, 1, Len(sorted) - 1), e), last)

RECURSIVE SortFrom(_, _)
SortFrom(sorted, rest) ==
    IF rest = <<>> THEN sorted
    ELSE SortFrom(InsertSorted(sorted, Head(rest)), Tail(rest))

sortEntries_ByTitleOnly(entries) ==
    LET RECURSIVE Ins(_, _)
        Ins(sorted, e) ==
            IF sorted = <<>> THEN <<e>>
            ELSE LET last == sorted[Len(sorted)]
                 IN  IF localeCompare(last.title, e.title) <= 0
                     THEN Append(sorted, e)
                     ELSE Append(Ins(SubSeq(sorted, 1, Len(sorted) - 1), e), last)
        RECURSIVE Go(_, _)
        Go(sorted, rest) ==
            IF rest = <<>> THEN sorted ELSE Go(Ins(sorted, Head(rest)), Tail(rest))
    IN  Go(<<>>, entries)

sortEntries(entries) == SortFrom(<<>>, entries)

\* index.toString(36)
Base36Digits ==
    << "0", "1", "2", "3", "4", "5", "6", "7", "8", "9", "a", "b", "c", "d",
       "e", "f", "g", "h", "i", "j", "k", "l", "m", "n", "o", "p", "q", "r",
       "s", "t", "u", "v", "w", "x", "y", "z" >>

RECURSIVE toString36(_)
toString36(n) ==
    IF n < 36 THEN Base36Digits[n + 1]
    ELSE toString36(n \div 36) \o Base36Digits[(n % 36) + 1]

\* The urls of a resource: its domains resolved, the nulls and the empty
\* strings dropped, the order kept.
RECURSIVE resolvedUrls(_)
resolvedUrls(domains) ==
    IF domains = <<>> THEN <<>>
    ELSE LET domain == Head(domains)
             value == IF Truthy(domain) THEN resolveDomainUrl(domain) ELSE Null
         IN  (IF value.kind = "string" /\ Len(value.v) > 0
              THEN <<value.v>> ELSE <<>>) \o resolvedUrls(Tail(domains))

resourceUrls(resource) ==
    resolvedUrls(Coalesce(resource.domains, Arr(<<>>)).items)

resourceId_NoIndex(project, projectName, section, resource, resIndex) ==
    Coalesce(resource.composeId,
      Coalesce(resource.applicationId,
        Coalesce(resource.databaseId,
          Str(Coalesce(project.projectId, Str(projectName)).v \o "-"
              \o section.key)))).v

\* resIndex is the position forEach passes, counted from 0.
resourceId(project, projectName, section, resource, resIndex) ==
    Coalesce(resource.composeId,
      Coalesce(resource.applicationId,
        Coalesce(resource.databaseId,
          Str(Coalesce(project.projectId, Str(projectName)).v \o "-"
              \o section.key \o "-" \o NumberToString(resIndex))))).v

resourceEntry(project, index, environment, section, resource, resIndex) ==
    LET projectName == Coalesce(project.name, Str("Unnamed project")).v
        projectKey ==
            Coalesce(project.projectId,
              Coalesce(project.name, Str("project-" \o toString36(index)))).v
    IN  [ id |-> resourceId(project, projectName, section, resource, resIndex),
          projectKey |-> projectKey,
          title |-> Coalesce(resource.name,
                      Coalesce(resource.appName, Str("Untitled resource"))).v,
          projectName |-> projectName,
          environmentName |-> Coalesce(environment.name, Undefined),
          sectionLabel |-> section.label,
          urls |-> resourceUrls(resource) ]

sectionEntries_SkipsEmptyDomains(project, index, environment, section) ==
    LET resources == environment[section.key]
    IN  IF ~Truthy(resources) THEN <<>>
        ELSE LET all == [i \in 1..Len(resources.items) |->
                          resourceEntry(project, index, environment, section,
                                        resources.items[i], i - 1)]
             IN  SelectSeq(all, LAMBDA e : e.urls # <<>>)

\* resources.forEach of one section of one environment.
sectionEntries(project, index, environment, section) ==
    LET resources == environment[section.key]
    IN  IF ~Truthy(resources) THEN <<>>
        ELSE [i \in 1..Len(resources.items) |->
                resourceEntry(project, index, environment, section,
                              resources.items[i], i - 1)]

environmentEntries(project, index, environment) ==
    ConcatAll([s \in 1..Len(resourceSections) |->
                 sectionEntries(project, index, environment, resourceSections[s])])

projectEntries(project, index) ==
    LET environments == Coalesce(project.environments, Arr(<<>>)).items
    IN  ConcatAll([e \in 1..Len(environments) |->
                     environmentEntries(project, index, environments[e])])

\* The entries pushed by the nested forEach, before the sort.
emittedEntries(projects) ==
    ConcatAll([p \in 1..Len(projects) |-> projectEntries(projects[p], p - 1)])

flattenProjects(projects) == sortEntries(emittedEntries(projects))

(**************************************************************************)
(* index.tsx: sanitizeBaseUrl.  The base URL is a sequence of characters. *)
(**************************************************************************)
\* The white space String.prototype.trim removes (the characters of it that
\* the inputs below are made of).
IsWhitespace(c) == c \in {" ", "\t", "\n", "\r"}

RECURSIVE trimStart(_)
trimStart(s) ==
    IF s # <<>> /\ IsWhitespace(Head(s)) THEN trimStart(Tail(s)) ELSE s

RECURSIVE trimEnd(_)
trimEnd(s) ==
    IF s # <<>> /\ IsWhitespace(s[Len(s)])
    THEN trimEnd(SubSeq(s, 1, Len(s) - 1)) ELSE s

\* input.trim()
trim(s) == trimEnd(trimStart(s))

stripTrailingSlash_All(s) ==
    LET RECURSIVE Go(_)
        Go(t) == IF t # <<>> /\ t[Len(t)] = "/"
                 THEN Go(SubSeq(t, 1, Len(t) - 1)) ELSE t
    IN  Go(s)

\* trimmed.replace(/\/$/, ""): $ matches at the end of the input only.
stripTrailingSlash(s) ==
    IF s # <<>> /\ s[Len(s)] = "/" THEN SubSeq(s, 1, Len(s) - 1) ELSE s

\* /\/api(?:\/|$)/.test(s): "/api" followed by "/" or by the end.
apiPattern(s) ==
    \E i \in 1..Len(s) :
        /\ i + 3 <= Len(s)
        /\ SubSeq(s, i, i + 3) = <<"/", "a", "p", "i">>
        /\ (i + 3 = Len(s) \/ s[i + 4] = "/")

sanitizeBaseUrl_NoTrim(input) ==
    IF input = <<>> THEN Null
    ELSE LET stripped == stripTrailingSlash(input)
             normalized == IF ~apiPattern(stripped)
                           THEN stripped \o <<"/", "a", "p", "i">>
                           ELSE stripped
         IN  Str(Join(normalized))

sanitizeBaseUrl(input) ==
    LET trimmed == trim(input)
    IN  IF trimmed = <<>> THEN Null
        ELSE LET stripped == stripTrailingSlash(trimmed)
                 normalized == IF ~apiPattern(stripped)
                               THEN stripped \o <<"/", "a", "p", "i">>
                               ELSE stripped
             IN  Str(Join(normalized))

(**************************************************************************)
(* The state.                                                             *)
(**************************************************************************)
VARIABLES
    input,       \* the argument of a call of sanitizeBaseUrl
    sanitized,   \* what the call returned
    domain,      \* the argument of a call of resolveDomainUrl
    resolved,    \* what the call returned
    projects,    \* the argument of a call of flattenProjects
    entries,     \* what the call returned
    envBaseUrl,  \* Bun.env.DOKPLOY_BASE_URL
    envApiKey,   \* Bun.env.DOKPLOY_API_KEY
    handler,     \* where the /api/config handler is: idle, awaiting, responded
    outbound,    \* the requests sent to Dokploy, in order
    openApiFetch,    \* the fetch of settings.getOpenApiDocument
    projectsFetch,   \* the fetch of project.all
    response,    \* the response of /api/config
    state,       \* App: the FetchState {status, data, error}
    pinnedResources, \* App: the pinned entry ids, in the order pinned
    storage,     \* localStorage["dokdash:pinnedResources"]
    mounted,     \* App: whether the mount effects have run
    inflight,    \* how many loadConfig calls await their fetch
    trail        \* the last two togglePin calls: the id and the pins before

urlVars == <<input, sanitized>>
domainVars == <<domain, resolved>>
flattenVars == <<projects, entries>>
serverVars ==
    <<envBaseUrl, envApiKey, handler, outbound, openApiFetch, projectsFetch,
      response>>
clientVars == <<state, pinnedResources, storage, mounted, inflight, trail>>
vars == <<urlVars, domainVars, flattenVars, serverVars, clientVars>>

\* The result of a call that has not been made yet.
Pending == [kind |-> "pending"]

\* All sequences over S of length at most n.
SeqsUpTo(S, n) == UNION {[1..k -> S] : k \in 0..n}

(**************************************************************************)
(* Calls of sanitizeBaseUrl.                                              *)
(**************************************************************************)
MaxUrlLen == 5

UrlAlphabet == {" ", "/", "a", "p", "i", "h"}

SampleUrls ==
    { <<"h", "t", "t", "p", "s", ":", "/", "/", "h", "o", "s", "t", "/">>,
      <<"h", "t", "t", "p", "s", ":", "/", "/", "h", "o", "s", "t", "/", "a", "p", "i", "/">>,
      <<"h", "t", "t", "p", "s", ":", "/", "/", "h", "o", "s", "t">>,
      <<" ", "h", "t", "t", "p", ":", "/", "/", "h", "/", "a", "p", "i", "/", "v", "1", "\n">>,
      <<"h", "t", "t", "p", ":", "/", "/", "h", "/", "a", "p", "i", "s", "/", "/">> }

UrlInputs == SeqsUpTo(UrlAlphabet, MaxUrlLen) \cup SampleUrls

Sanitize ==
    /\ sanitized = Pending
    /\ sanitized' = sanitizeBaseUrl(input)
    /\ UNCHANGED <<input, domainVars, flattenVars, serverVars, clientVars>>

(**************************************************************************)
(* Calls of resolveDomainUrl.                                             *)
(**************************************************************************)
DomainObject(host, https, port, path) ==
    [kind |-> "object", host |-> host, https |-> https, port |-> port,
     path |-> path]

Hosts == {Str(""), Str("a.com"), Str("b.io")}
HttpsFlags == {Undefined, Bool(TRUE), Bool(FALSE)}
Ports == {Undefined, Null, Num(0), Num(80), Num(8080)}
Paths == {Undefined, Null, Str(""), Str("/"), Str("/x")}

DomainInputs ==
    {Undefined, Null} \cup
    {DomainObject(h, s, p, q) : h \in Hosts, s \in HttpsFlags, p \in Ports, q \in Paths}

Resolve ==
    /\ resolved = Pending
    /\ resolved' = resolveDomainUrl(domain)
    /\ UNCHANGED <<domain, urlVars, flattenVars, serverVars, clientVars>>

(**************************************************************************)
(* Calls of flattenProjects.  The project list is put together one        *)
(* project, environment and resource at a time, then flattened.           *)
(**************************************************************************)
\* The most projects, environments and resources, counted together, of an
\* input.
MaxInputSize == 6

Resource(composeId, applicationId, databaseId, name, appName, domains) ==
    [kind |-> "object", composeId |-> composeId, applicationId |-> applicationId,
     databaseId |-> databaseId, name |-> name, appName |-> appName,
     domains |-> domains]

Environment(name) ==
    [kind |-> "object", name |-> name, applications |-> Undefined,
     compose |-> Undefined, postgres |-> Undefined, mysql |-> Undefined,
     mariadb |-> Undefined, mongo |-> Undefined, redis |-> Undefined]

Project(projectId, name, environments) ==
    [kind |-> "object", projectId |-> projectId, name |-> name,
     environments |-> environments]

\* Resources accepted by resourceSchema: with and without upstream ids and
\* names, with domains omitted, null, empty and present.
ResourceInputs ==
    { Resource(Undefined, Undefined, Undefined, Undefined, Undefined, Undefined),
      Resource(Undefined, Undefined, Undefined, Str("db"), Undefined, Null),
      Resource(Undefined, Undefined, Undefined, Undefined, Str("svc"), Arr(<<>>)),
      Resource(Str("c1"), Str("a1"), Undefined, Str("App"), Str("svc"),
               Arr(<<DomainObject(Str("a.com"), Bool(TRUE), Num(8080), Str("/x")),
                     DomainObject(Str("b.io"), Undefined, Null, Str("/"))>>)) }

ProjectInputs ==
    { Project(Undefined, Undefined, Undefined),
      Project(Str("p1"), Str("web"), Undefined),
      Project(Undefined, Str("api"), Undefined) }

EnvironmentNames == {Str("production")}

\* The sections the inputs put resources in: the first and the last.
InputSections == {"applications", "redis"}

SectionResources(environment) ==
    ConcatAll([s \in 1..Len(resourceSections) |->
        LET resources == environment[resourceSections[s].key]
        IN  IF Nullish(resources) THEN <<>> ELSE resources.items])

EnvironmentsOf(project) == Coalesce(project.environments, Arr(<<>>)).items

ProjectResources(project) ==
    ConcatAll([e \in 1..Len(EnvironmentsOf(project)) |->
                 SectionResources(EnvironmentsOf(project)[e])])

\* Every resource of the project list, in the order flattenProjects visits.
AllResources(ps) == ConcatAll([p \in 1..Len(ps) |-> ProjectResources(ps[p])])

AllEnvironments(ps) == ConcatAll([p \in 1..Len(ps) |-> EnvironmentsOf(ps[p])])

InputSize(ps) == Len(ps) + Len(AllEnvironments(ps)) + Len(AllResources(ps))

AddProject(project) ==
    /\ entries = Pending
    /\ InputSize(projects) < MaxInputSize
    /\ projects' = Append(projects, project)
    /\ UNCHANGED <<entries, urlVars, domainVars, serverVars, clientVars>>

AddEnvironment(name) ==
    /\ entries = Pending
    /\ projects # <<>>
    /\ LET p == Len(projects)
           envs == EnvironmentsOf(projects[p])
       IN  /\ InputSize(projects) < MaxInputSize
           /\ projects' = [projects EXCEPT ![p].environments =
                             Arr(Append(envs, Environment(name)))]
    /\ UNCHANGED <<entries, urlVars, domainVars, serverVars, clientVars>>

AddResource(key, resource) ==
    /\ entries = Pending
    /\ projects # <<>>
    /\ InputSize(projects) < MaxInputSize
    /\ LET p == Len(projects)
           envs == EnvironmentsOf(projects[p])
           e == Len(envs)
       IN  /\ e > 0
           /\ LET items == Coalesce(envs[e][key], Arr(<<>>)).items
              IN  projects' = [projects EXCEPT ![p].environments =
                      Arr([envs EXCEPT ![e][key] = Arr(Append(items, resource))])]
    /\ UNCHANGED <<entries, urlVars, domainVars, serverVars, clientVars>>

Flatten ==
    /\ entries = Pending
    /\ entries' = Arr(flattenProjects(projects))
    /\ UNCHANGED <<projects, urlVars, domainVars, serverVars, clientVars>>

(**************************************************************************)
(* index.tsx: the /api/config route handler.                              *)
(**************************************************************************)
MaxEnvLen == 2

EnvAlphabet == {" ", "\t", "/", "h"}

\* A string whose characters matter.
Chars(cs) == [kind |-> "string", chars |-> cs]

EnvBaseUrls == {Undefined} \cup {Chars(cs) : cs \in SeqsUpTo(EnvAlphabet, MaxEnvLen)}
EnvApiKeys == {Undefined, Str("secret")}

NoResponse == [kind |-> "none"]
Idle == [kind |-> "idle"]

\* What a fetch settles with: a Response, or a rejection (no connection).
HttpResponse(status, statusText, body) ==
    [kind |-> "response", status |-> status, statusText |-> statusText,
     body |-> body]
Rejected(message) == [kind |-> "rejected", message |-> message]

\* A response body: JSON text of a value, or text that is not JSON.
JsonBody(value) == [kind |-> "json", value |-> value]
TextBody == [kind |-> "text"]

StatusTexts == [s \in {200, 404, 500, 503} |->
                  CASE s = 200 -> "OK" [] s = 404 -> "Not Found"
                    [] s = 500 -> "Internal Server Error"
                    [] OTHER -> "Service Unavailable"]

OpenApiDocument(info, servers) ==
    [kind |-> "object", info |-> info, servers |-> servers]

OpenApiInfo(title, version, description) ==
    [kind |-> "object", title |-> title, version |-> version,
     description |-> description]

OpenApiBodies ==
    { JsonBody(OpenApiDocument(OpenApiInfo(Str("Dokploy"), Str("1.0.0"), Undefined),
                               Arr(<<[kind |-> "object", url |-> Str("/api")]>>))),
      JsonBody(OpenApiDocument(Undefined, Undefined)),
      JsonBody(Str("maintenance")),
      TextBody }

ProjectsBodies ==
    { JsonBody(Arr(<<>>)),
      JsonBody(Arr(<<Project(Str("p1"), Str("web"), Undefined)>>)),
      JsonBody(Null),
      TextBody }

FailureOutcomes ==
    {HttpResponse(s, StatusTexts[s], TextBody) : s \in {404, 503}}
    \cup {Rejected("Unable to connect")}

OpenApiOutcomes ==
    {HttpResponse(200, StatusTexts[200], b) : b \in OpenApiBodies} \cup FailureOutcomes

ProjectsOutcomes ==
    {HttpResponse(200, StatusTexts[200], b) : b \in ProjectsBodies} \cup FailureOutcomes

\* Response.ok
Ok(r) == r.status \in 200..299

\* openApiInfoSchema.parse accepts the value.
openApiInfoSchemaAccepts(value) ==
    /\ value.kind = "object"
    /\ value.info.kind \in {"undefined", "object"}
    /\ value.servers.kind \in {"undefined", "array"}

\* projectListSchema.parse accepts the value.
projectListSchemaAccepts(value) == value.kind = "array"

\* Response.json(body, {status, headers})
JsonResponse(status, body, cacheControl) ==
    [kind |-> "json", status |-> status, body |-> body,
     cacheControl |-> cacheControl]

\* The catch block: a 500 with the message of the error.
ErrorResponse(message) ==
    JsonResponse(500, [kind |-> "error", error |-> message], Undefined)

FetchedAt == Str("2025-01-01T00:00:00.000Z")

\* new Error(`Unable to load Dokploy ... (${status} ${statusText})`).message
UpstreamError(what, r) ==
    "Unable to load Dokploy " \o what \o " (" \o NumberToString(r.status)
    \o " " \o r.statusText \o ")"

configPayload(openApi, projectList) ==
    LET info == openApi.info
        Field(name) == IF Nullish(info) THEN Undefined ELSE info[name]
        servers == Coalesce(openApi.servers, Arr(<<>>)).items
    IN  [ kind |-> "config",
          projects |-> projectList,
          meta |-> [ title |-> Field("title"),
                     version |-> Field("version"),
                     description |-> Field("description"),
                     servers |-> [i \in 1..Len(servers) |-> servers[i].url],
                     fetchedAt |-> FetchedAt ] ]

respondToFetched_NoOpenApiCheck(openApiResponse, projectsResponse) ==
    IF ~Ok(projectsResponse)
    THEN ErrorResponse(UpstreamError("projects", projectsResponse))
    ELSE IF openApiResponse.body.kind # "json" \/ projectsResponse.body.kind # "json"
    THEN ErrorResponse("Failed to parse JSON")
    ELSE IF ~openApiInfoSchemaAccepts(openApiResponse.body.value)
    THEN ErrorResponse("Invalid OpenAPI document")
    ELSE IF ~projectListSchemaAccepts(projectsResponse.body.value)
    THEN ErrorResponse("Invalid project list")
    ELSE JsonResponse(200,
           configPayload(openApiResponse.body.value, projectsResponse.body.value.items),
           Str("no-store"))

\* The handler once both fetches are fulfilled: the ok checks, the bodies
\* read and parsed, the payload built; every throw ends in the catch block.
respondToFetched(openApiResponse, projectsResponse) ==
    IF ~Ok(openApiResponse)
    THEN ErrorResponse(UpstreamError("OpenAPI document", openApiResponse))
    ELSE IF ~Ok(projectsResponse)
    THEN ErrorResponse(UpstreamError("projects", projectsResponse))
    ELSE IF openApiResponse.body.kind # "json" \/ projectsResponse.body.kind # "json"
    THEN ErrorResponse("Failed to parse JSON")
    ELSE IF ~openApiInfoSchemaAccepts(openApiResponse.body.value)
    THEN ErrorResponse("Invalid OpenAPI document")
    ELSE IF ~projectListSchemaAccepts(projectsResponse.body.value)
    THEN ErrorResponse("Invalid project list")
    ELSE JsonResponse(200,
           configPayload(openApiResponse.body.value, projectsResponse.body.value.items),
           Str("no-store"))

\* The request arrives: the handler runs up to the await of Promise.all, or
\* returns the configuration error.
HandleRequest ==
    /\ handler = "idle"
    /\ LET baseUrl == IF Nullish(envBaseUrl) THEN <<>> ELSE envBaseUrl.chars
           apiKey == Coalesce(envApiKey, Str(""))
           sanitizedBase == sanitizeBaseUrl(baseUrl)
           headers == [ accept |-> "application/json",
                        xApiKey |-> IF Truthy(apiKey) THEN apiKey ELSE Undefined ]
       IN  IF ~Truthy(sanitizedBase)
           THEN /\ response' = ErrorResponse("Missing DOKPLOY_BASE_URL environment variable.")
                /\ handler' = "responded"
                /\ UNCHANGED <<outbound, openApiFetch, projectsFetch>>
           ELSE /\ outbound' =
                     << [url |-> sanitizedBase.v \o "/settings.getOpenApiDocument",
                         headers |-> headers],
                        [url |-> sanitizedBase.v \o "/project.all",
                         headers |-> headers] >>
                /\ openApiFetch' = Pending
                /\ projectsFetch' = Pending
                /\ handler' = "awaiting"
                /\ UNCHANGED response
    /\ UNCHANGED <<envBaseUrl, envApiKey, urlVars, domainVars, flattenVars, clientVars>>

\* Promise.all of the two fetches: it rejects with the first rejection and
\* is fulfilled once both are; the handler goes on at once.
AfterSettle(openApi, projectList) ==
    IF openApi.kind = "rejected"
    THEN /\ response' = ErrorResponse(openApi.message)
         /\ handler' = "responded"
    ELSE IF projectList.kind = "rejected"
    THEN /\ response' = ErrorResponse(projectList.message)
         /\ handler' = "responded"
    ELSE IF openApi.kind = "response" /\ projectList.kind = "response"
    THEN /\ response' = respondToFetched(openApi, projectList)
         /\ handler' = "responded"
    ELSE UNCHANGED <<response, handler>>

OpenApiSettles(outcome) ==
    /\ handler = "awaiting"
    /\ openApiFetch = Pending
    /\ openApiFetch' = outcome
    /\ AfterSettle(outcome, projectsFetch)
    /\ UNCHANGED <<envBaseUrl, envApiKey, outbound, projectsFetch, urlVars,
                   domainVars, flattenVars, clientVars>>

ProjectsSettles(outcome) ==
    /\ handler = "awaiting"
    /\ projectsFetch = Pending
    /\ projectsFetch' = outcome
    /\ AfterSettle(openApiFetch, outcome)
    /\ UNCHANGED <<envBaseUrl, envApiKey, outbound, openApiFetch, urlVars,
                   domainVars, flattenVars, clientVars>>

(**************************************************************************)
(* App.tsx: the App component.                                            *)
(**************************************************************************)
MaxInflight == 2
MaxStored == 2

FetchState(status, data, error) ==
    [status |-> status, data |-> data, error |-> error]

\* What localStorage may hold under the key: nothing, text that is not
\* JSON, JSON that is no array, or an array (of ids, or with other items).
StoredIds == {"c1", "p1-applications-0", "gone"}

StoredValues ==
    {Null, TextBody, JsonBody(Num(1)), JsonBody(Arr(<<Num(7), Str("c1")>>))}
    \cup {JsonBody(Arr(items)) : items \in SeqsUpTo({Str(i) : i \in StoredIds}, MaxStored)}

\* The initializer of pinnedResources.
restorePins(stored) ==
    IF stored.kind = "null" THEN <<>>
    ELSE IF stored.kind # "json" THEN <<>>
    ELSE IF stored.value.kind # "array" THEN <<>>
    ELSE LET strings == SelectSeq(stored.value.items, LAMBDA item : item.kind = "string")
         IN  [i \in 1..Len(strings) |-> strings[i].v]

\* JSON.stringify(pinnedResources), as localStorage keeps it.
persistedPins(pins) == JsonBody(Arr([i \in 1..Len(pins) |-> Str(pins[i])]))

\* prev.includes(entryId)
Includes(seq, x) == \E i \in 1..Len(seq) : seq[i] = x

togglePin_KeepsOnlyEntry(prev, entryId) ==
    IF Includes(prev, entryId)
    THEN SelectSeq(prev, LAMBDA key : key = entryId)
    ELSE prev \o <<entryId>>

\* The updater togglePin hands to setPinnedResources.
togglePin(prev, entryId) ==
    IF Includes(prev, entryId)
    THEN SelectSeq(prev, LAMBDA key : key # entryId)
    ELSE prev \o <<entryId>>

\* The project lists /api/config answers with: none; one environment with
\* an application without ids and one with; two environments with an
\* application without ids each.
ClientProjectLists ==
    { <<>>,
      << Project(Str("p1"), Str("web"), Arr(<<
           [Environment(Str("production")) EXCEPT !.applications = Arr(<<
              Resource(Undefined, Undefined, Undefined, Str("db"), Undefined, Null),
              Resource(Str("c1"), Undefined, Undefined, Str("App"), Undefined,
                       Arr(<<DomainObject(Str("a.com"), Bool(TRUE), Undefined, Undefined)>>))
            >>)] >>)) >>,
      << Project(Str("p1"), Str("web"), Arr(<<
           [Environment(Str("production")) EXCEPT !.applications = Arr(<<
              Resource(Undefined, Undefined, Undefined, Str("App"), Undefined, Undefined) >>)],
           [Environment(Str("staging")) EXCEPT !.applications = Arr(<<
              Resource(Undefined, Undefined, Undefined, Str("App"), Undefined, Undefined) >>)]
         >>)) >> }

ClientPayloads ==
    {configPayload(OpenApiDocument(Undefined, Undefined), ps) : ps \in ClientProjectLists}

\* What the fetch of /api/config settles with.
ClientOutcomes ==
    {HttpResponse(200, StatusTexts[200], JsonBody(payload)) : payload \in ClientPayloads}
    \cup { HttpResponse(200, StatusTexts[200], JsonBody(Null)),
           HttpResponse(500, StatusTexts[500],
                        JsonBody([kind |-> "error", error |-> "Unable to connect"])),
           Rejected("Failed to fetch") }

\* configResponseSchema.parse accepts the value.
configResponseSchemaAccepts(value) == value.kind = "config"

\* loadConfig after its await: the state it sets.
loadConfigSettled(outcome) ==
    IF outcome.kind = "rejected"
    THEN FetchState("idle", Null, Str(outcome.message))
    ELSE IF ~Ok(outcome)
    THEN FetchState("idle", Null,
                    Str(NumberToString(outcome.status) \o " " \o outcome.statusText))
    ELSE IF outcome.body.kind # "json"
    THEN FetchState("idle", Null, Str("Failed to parse JSON"))
    ELSE IF ~configResponseSchemaAccepts(outcome.body.value)
    THEN FetchState("idle", Null, Str("Invalid config response"))
    ELSE FetchState("idle", outcome.body.value, Null)

\* What App derives from its state at each render.
isLoading == state.status = "loading"
shownEntries == IF Truthy(state.data) THEN flattenProjects(state.data.projects) ELSE <<>>
pinnedEntries == SelectSeq(shownEntries, LAMBDA entry : Includes(pinnedResources, entry.id))
regularEntries == SelectSeq(shownEntries, LAMBDA entry : ~Includes(pinnedResources, entry.id))

\* What App renders.
ErrorCardShown == Truthy(state.error)
SkeletonShown == isLoading /\ ~Truthy(state.data)
EmptyCardShown ==
    Truthy(state.data) /\ Len(shownEntries) = 0 /\ ~isLoading /\ ~Truthy(state.error)
ContentShown ==
    EmptyCardShown \/ Len(pinnedEntries) > 0 \/ Len(regularEntries) > 0

\* loadConfig up to its await: the status set to loading, the fetch sent.
StartLoadConfig ==
    /\ state' = [state EXCEPT !.status = "loading"]
    /\ inflight' = inflight + 1

\* The effects of the first render: the pins persisted, loadConfig called.
Mount ==
    /\ ~mounted
    /\ mounted' = TRUE
    /\ storage' = persistedPins(pinnedResources)
    /\ StartLoadConfig
    /\ UNCHANGED <<pinnedResources, trail, urlVars, domainVars, flattenVars,
                   serverVars>>

\* A click on "Try again", which the error card holds.
Retry ==
    /\ mounted
    /\ ErrorCardShown
    /\ inflight < MaxInflight
    /\ StartLoadConfig
    /\ UNCHANGED <<pinnedResources, storage, mounted, trail, urlVars,
                   domainVars, flattenVars, serverVars>>

\* The fetch of one loadConfig call settles.
FetchSettles(outcome) ==
    /\ inflight > 0
    /\ inflight' = inflight - 1
    /\ state' = loadConfigSettled(outcome)
    /\ UNCHANGED <<pinnedResources, storage, mounted, trail, urlVars,
                   domainVars, flattenVars, serverVars>>

\* A click on the pin of a card, then the effect that persists the pins.
TogglePin(entryId) ==
    /\ mounted
    /\ \E i \in 1..Len(shownEntries) : shownEntries[i].id = entryId
    /\ pinnedResources' = togglePin(pinnedResources, entryId)
    /\ storage' = persistedPins(pinnedResources')
    /\ trail' = LET call == [entryId |-> entryId, before |-> pinnedResources]
                IN  IF Len(trail) = 2 THEN <<trail[2], call>> ELSE Append(trail, call)
    /\ UNCHANGED <<state, mounted, inflight, urlVars, domainVars, flattenVars,
                   serverVars>>

(**************************************************************************)
(* Specifications.                                                        *)
(**************************************************************************)
UrlInit ==
    /\ input \in UrlInputs /\ sanitized = Pending
    /\ domain = Undefined /\ resolved = Pending
    /\ projects = <<>> /\ entries = Pending
    /\ envBaseUrl = Undefined /\ envApiKey = Undefined /\ handler = "idle"
    /\ outbound = <<>> /\ openApiFetch = Idle /\ projectsFetch = Idle
    /\ response = NoResponse
    /\ state = FetchState("loading", Null, Null) /\ pinnedResources = <<>>
    /\ storage = Null /\ mounted = FALSE /\ inflight = 0 /\ trail = <<>>

UrlNext == Sanitize

UrlSpec == UrlInit /\ [][UrlNext]_vars

DomainInit ==
    /\ domain \in DomainInputs /\ resolved = Pending
    /\ input = <<>> /\ sanitized = Pending
    /\ projects = <<>> /\ entries = Pending
    /\ envBaseUrl = Undefined /\ envApiKey = Undefined /\ handler = "idle"
    /\ outbound = <<>> /\ openApiFetch = Idle /\ projectsFetch = Idle
    /\ response = NoResponse
    /\ state = FetchState("loading", Null, Null) /\ pinnedResources = <<>>
    /\ storage = Null /\ mounted = FALSE /\ inflight = 0 /\ trail = <<>>

DomainNext == Resolve

DomainSpec == DomainInit /\ [][DomainNext]_vars

FlattenInit ==
    /\ projects = <<>> /\ entries = Pending
    /\ input = <<>> /\ sanitized = Pending
    /\ domain = Undefined /\ resolved = Pending
    /\ envBaseUrl = Undefined /\ envApiKey = Undefined /\ handler = "idle"
    /\ outbound = <<>> /\ openApiFetch = Idle /\ projectsFetch = Idle
    /\ response = NoResponse
    /\ state = FetchState("loading", Null, Null) /\ pinnedResources = <<>>
    /\ storage = Null /\ mounted = FALSE /\ inflight = 0 /\ trail = <<>>

FlattenNext ==
    \/ \E project \in ProjectInputs : AddProject(project)
    \/ \E name \in EnvironmentNames : AddEnvironment(name)
    \/ \E key \in InputSections, resource \in ResourceInputs : AddResource(key, resource)
    \/ Flatten

FlattenSpec == FlattenInit /\ [][FlattenNext]_vars

ServerInit ==
    /\ envBaseUrl \in EnvBaseUrls /\ envApiKey \in EnvApiKeys
    /\ handler = "idle" /\ outbound = <<>>
    /\ openApiFetch = Idle /\ projectsFetch = Idle /\ response = NoResponse
    /\ input = <<>> /\ sanitized = Pending
    /\ domain = Undefined /\ resolved = Pending
    /\ projects = <<>> /\ entries = Pending
    /\ state = FetchState("loading", Null, Null) /\ pinnedResources = <<>>
    /\ storage = Null /\ mounted = FALSE /\ inflight = 0 /\ trail = <<>>

ServerNext ==
    \/ HandleRequest
    \/ \E outcome \in OpenApiOutcomes : OpenApiSettles(outcome)
    \/ \E outcome \in ProjectsOutcomes : ProjectsSettles(outcome)

ServerSpec == ServerInit /\ [][ServerNext]_vars

\* The App after construction: the initial FetchState, the pins restored.
Init ==
    /\ storage \in StoredValues
    /\ pinnedResources = restorePins(storage)
    /\ state = FetchState("loading", Null, Null)
    /\ mounted = FALSE /\ inflight = 0 /\ trail = <<>>
    /\ input = <<>> /\ sanitized = Pending
    /\ domain = Undefined /\ resolved = Pending
    /\ projects = <<>> /\ entries = Pending
    /\ envBaseUrl = Undefined /\ envApiKey = Undefined /\ handler = "idle"
    /\ outbound = <<>> /\ openApiFetch = Idle /\ projectsFetch = Idle
    /\ response = NoResponse

Next ==
    \/ Mount
    \/ Retry
    \/ \E outcome \in ClientOutcomes : FetchSettles(outcome)
    \/ \E entryId \in {"c1", "p1-applications-0"} : TogglePin(entryId)

Spec == Init /\ [][Next]_vars

(**************************************************************************)
(* Properties of flattenProjects (FlattenSpec).                           *)
(**************************************************************************)
Flattened == entries.kind = "array"

\* The title the specification gives a resource: its name, else its
\* appName, else the default.
TitleOf(resource) ==
    IF resource.name.kind = "string" THEN resource.name.v
    ELSE IF resource.appName.kind = "string" THEN resource.appName.v
    ELSE "Untitled resource"

\* A resource whose domains field is omitted, null or [].
HasNoDomains(resource) ==
    \/ resource.domains.kind \in {"undefined", "null"}
    \/ resource.domains.items = <<>>

HasNoUpstreamId(resource) ==
    /\ resource.composeId.kind = "undefined"
    /\ resource.applicationId.kind = "undefined"
    /\ resource.databaseId.kind = "undefined"

\* How many elements of the sequence satisfy the test.
CountOf(seq, Test(_)) == Cardinality({i \in 1..Len(seq) : Test(seq[i])})

\* C6: the output of flattenProjects is sorted by projectName, then by
\* title: of two entries with different project names the one whose name
\* collates first comes first, whatever the order of the input, and entries
\* of the same project name are in the order of their titles.
FlattenIsSorted ==
    Flattened =>
        \A i, j \in 1..Len(entries.items) :
            i < j =>
                LET a == entries.items[i]
                    b == entries.items[j]
                IN  IF a.projectName # b.projectName
                    THEN CollationRank(a.projectName) < CollationRank(b.projectName)
                    ELSE CollationRank(a.title) <= CollationRank(b.title)

\* C6, its case: entries of two projects, emitted in another order than the
\* sorted one.
FlattenIsSortedWitness ==
    /\ Flattened
    /\ entries.items # emittedEntries(projects)
    /\ \E i, j \in 1..Len(entries.items) :
          entries.items[i].projectName # entries.items[j].projectName

\* C7: flattenProjects emits exactly one entry per resource of the input,
\* over all projects, environments and the seven sections: as many entries
\* as resources, and for every title as many entries with no urls as
\* resources with no domains (omitted, null or []); the empty list gives
\* the empty list.
FlattenKeepsEveryResource ==
    Flattened =>
        LET resources == AllResources(projects)
            Titles == {TitleOf(resources[i]) : i \in 1..Len(resources)}
                      \cup {entries.items[i].title : i \in 1..Len(entries.items)}
        IN  /\ Len(entries.items) = Len(resources)
            /\ \A t \in Titles :
                  /\ CountOf(entries.items, LAMBDA e : e.title = t /\ e.urls = <<>>)
                     = CountOf(resources, LAMBDA r : TitleOf(r) = t /\ HasNoDomains(r))
                  /\ CountOf(entries.items, LAMBDA e : e.title = t /\ e.urls # <<>>)
                     = CountOf(resources, LAMBDA r : TitleOf(r) = t /\ ~HasNoDomains(r))
            /\ (projects = <<>> => entries.items = <<>>)

\* C7, its case: resources with domains omitted, null and [] were
\* flattened, in an environment with absent sections.
FlattenKeepsEveryResourceWitness ==
    /\ Flattened
    /\ LET resources == AllResources(projects)
       IN  /\ \E i \in 1..Len(resources) : resources[i].domains = Undefined
           /\ \E i \in 1..Len(resources) : resources[i].domains = Null
           /\ \E i \in 1..Len(resources) : resources[i].domains = Arr(<<>>)
    /\ Len(entries.items) = 3
    /\ \A i \in 1..3 : entries.items[i].urls = <<>>

\* One project with one environment whose applications are two resources
\* with no composeId, applicationId or databaseId.
TwoApplicationsWithoutIds ==
    /\ Len(projects) = 1
    /\ Len(EnvironmentsOf(projects[1])) = 1
    /\ LET applications == EnvironmentsOf(projects[1])[1].applications
       IN  /\ applications.kind = "array"
           /\ Len(applications.items) = 2
           /\ \A i \in 1..2 : HasNoUpstreamId(applications.items[i])

\* C8: for one project with one environment holding two applications with
\* no explicit ids, the two entries get distinct ids, built from the project
\* id (else the project name), the section key and the position; flattening
\* the same input again gives the same ids.
FallbackIdsAreDistinct ==
    (Flattened /\ TwoApplicationsWithoutIds) =>
        LET apps == SelectSeq(entries.items, LAMBDA e : e.sectionLabel = "Applications")
            project == projects[1]
            prefix == IF project.projectId.kind = "string" THEN project.projectId.v
                      ELSE IF project.name.kind = "string" THEN project.name.v
                      ELSE "Unnamed project"
        IN  /\ Len(apps) = 2
            /\ apps[1].id # apps[2].id
            /\ {apps[1].id, apps[2].id}
                 = {prefix \o "-applications-0", prefix \o "-applications-1"}
            /\ [i \in 1..Len(entries.items) |-> entries.items[i].id]
                 = [i \in 1..Len(entries.items) |-> flattenProjects(projects)[i].id]

\* C8, its case: such a project was flattened.
FallbackIdsAreDistinctWitness ==
    /\ Flattened
    /\ TwoApplicationsWithoutIds
    /\ Len(entries.items) = 2

(**************************************************************************)
(* Properties of sanitizeBaseUrl (UrlSpec).                               *)
(**************************************************************************)
IsBlank(s) == \A k \in 1..Len(s) : IsWhitespace(s[k])

\* t is s without its leading and trailing white space.
IsTrimOf(t, s) ==
    \E i \in 1..(Len(s) + 1) :
        \E j \in (i - 1)..Len(s) :
            /\ t = SubSeq(s, i, j)
            /\ \A k \in 1..(i - 1) : IsWhitespace(s[k])
            /\ \A k \in (j + 1)..Len(s) : IsWhitespace(s[k])
            /\ (i <= j => ~IsWhitespace(s[i]) /\ ~IsWhitespace(s[j]))

\* The parts of s between its slashes.
RECURSIVE SplitAtSlash(_, _)
SplitAtSlash(s, part) ==
    IF s = <<>> THEN <<part>>
    ELSE IF Head(s) = "/" THEN <<part>> \o SplitAtSlash(Tail(s), <<>>)
    ELSE SplitAtSlash(Tail(s), Append(part, Head(s)))

\* s has a part "api" after a slash.
HasApiSegment(s) ==
    LET parts == SplitAtSlash(s, <<>>)
    IN  \E k \in 2..Len(parts) : parts[k] = <<"a", "p", "i">>

\* The normalization the specification states, of a trimmed value.
NormalizedFrom(t) ==
    LET stripped == IF t[Len(t)] = "/" THEN SubSeq(t, 1, Len(t) - 1) ELSE t
    IN  IF HasApiSegment(stripped) THEN stripped
        ELSE stripped \o <<"/", "a", "p", "i">>

\* C9: for a non-blank input sanitizeBaseUrl returns the trimmed input
\* with exactly one trailing slash stripped, and "/api" appended if and only
\* if the stripped value has no /api segment: "https://host/" and
\* "https://host/api/" both give "https://host/api".
SanitizeNormalizes ==
    (sanitized # Pending /\ ~IsBlank(input)) =>
        /\ \E i \in 1..Len(input) :
              \E j \in i..Len(input) :
                 /\ IsTrimOf(SubSeq(input, i, j), input)
                 /\ sanitized = Str(Join(NormalizedFrom(SubSeq(input, i, j))))
        /\ (Join(input) = "https://host/" => sanitized = Str("https://host/api"))
        /\ (Join(input) = "https://host/api/" => sanitized = Str("https://host/api"))

\* C9, its case: "https://host/api/" was normalized.
SanitizeNormalizesWitness ==
    /\ Join(input) = "https://host/api/"
    /\ sanitized = Str("https://host/api")

(**************************************************************************)
(* Properties of resolveDomainUrl (DomainSpec).                           *)
(**************************************************************************)
\* The URL the specification states for a domain with a host.
UrlOf(d) ==
    LET scheme == IF d.https = Bool(TRUE) THEN "https" ELSE "http"
        portSegment == IF d.port.kind = "number" /\ d.port.v # 0
                       THEN ":" \o ToString(d.port.v) ELSE ""
        pathSegment == IF d.path.kind = "string" /\ d.path.v # "/"
                       THEN d.path.v ELSE ""
    IN  scheme \o "://" \o d.host.v \o portSegment \o pathSegment

\* C10: resolveDomainUrl returns null for a null or undefined domain and
\* for an empty host; otherwise scheme://host, then ":port" iff the port is
\* present and not zero, then the path iff it is present and not "/".
ResolveBuildsUrl ==
    resolved # Pending =>
        /\ IF domain.kind \in {"undefined", "null"} THEN resolved = Null
           ELSE IF domain.host.v = "" THEN resolved = Null
           ELSE resolved = Str(UrlOf(domain))
        /\ (domain = DomainObject(Str("a.com"), Bool(TRUE), Num(8080), Str("/x"))
              => resolved = Str("https://a.com:8080/x"))
        /\ (domain = DomainObject(Str("a.com"), Undefined, Undefined, Str("/"))
              => resolved = Str("http://a.com"))

\* C10, its case: a domain with https, a port and a path was resolved.
ResolveBuildsUrlWitness ==
    /\ domain = DomainObject(Str("a.com"), Bool(TRUE), Num(8080), Str("/x"))
    /\ resolved = Str("https://a.com:8080/x")

(**************************************************************************)
(* Properties of /api/config (ServerSpec).                                *)
(**************************************************************************)
\* The base URL is missing, empty or white space only.
BaseUrlIsBlank == envBaseUrl = Undefined \/ IsBlank(envBaseUrl.chars)

\* The fetch returned a response with a non-success status.
HttpFailed(f) == f.kind = "response" /\ ~(f.status >= 200 /\ f.status <= 299)

HttpSucceeded(f) == f.kind = "response" /\ f.status >= 200 /\ f.status <= 299

\* The message names the call with the status code and text it returned.
NamesOpenApiCall(message) ==
    message = "Unable to load Dokploy OpenAPI document ("
              \o ToString(openApiFetch.status) \o " " \o openApiFetch.statusText \o ")"

NamesProjectsCall(message) ==
    message = "Unable to load Dokploy projects ("
              \o ToString(projectsFetch.status) \o " " \o projectsFetch.statusText \o ")"

AnsweredUpstreamFailure ==
    /\ handler = "responded"
    /\ ~BaseUrlIsBlank
    /\ (HttpFailed(openApiFetch) \/ HttpFailed(projectsFetch))

IsError500 ==
    /\ response.kind = "json"
    /\ response.status = 500
    /\ response.body.kind = "error"

NamesAFailedCall ==
    /\ \/ HttpFailed(openApiFetch) /\ NamesOpenApiCall(response.body.error)
       \/ HttpFailed(projectsFetch) /\ NamesProjectsCall(response.body.error)
    /\ (HttpFailed(openApiFetch) /\ HttpSucceeded(projectsFetch)
          => NamesOpenApiCall(response.body.error))

\* C1, as stated: with a base URL configured, if either outbound call
\* returns a non-success status the response is a 500 {error} whose message
\* names a call that failed with its status code and text, the OpenAPI call
\* when the projects call succeeded.
UpstreamFailureNamesTheCall ==
    AnsweredUpstreamFailure => (IsError500 /\ NamesAFailedCall)

\* C1, amended: with a base URL configured, if either outbound call returns
\* a non-success status the response is a 500 {error}, never a payload; when
\* both calls returned a response the message names a call that failed with
\* its status code and text (the OpenAPI call when the projects call
\* succeeded); when the other call was rejected the message is that
\* rejection's.
UpstreamFailureIsError500 ==
    AnsweredUpstreamFailure =>
        /\ IsError500
        /\ (openApiFetch.kind = "response" /\ projectsFetch.kind = "response"
              => NamesAFailedCall)
        /\ (openApiFetch.kind = "rejected"
              => response.body.error = openApiFetch.message)
        /\ (projectsFetch.kind = "rejected"
              => response.body.error = projectsFetch.message)

\* C1, its case: the OpenAPI call returned 503, the projects call 200.
UpstreamFailureIsError500Witness ==
    /\ handler = "responded"
    /\ ~BaseUrlIsBlank
    /\ openApiFetch.kind = "response" /\ openApiFetch.status = 503
    /\ HttpSucceeded(projectsFetch)
    /\ response.body.kind = "error"
    /\ response.body.error
         = "Unable to load Dokploy OpenAPI document (503 Service Unavailable)"

\* C4: with the base URL missing, empty or white space only, no request is
\* ever sent to Dokploy, and the request is answered by a 500 whose body is
\* {error: "Missing DOKPLOY_BASE_URL environment variable."}.
BlankBaseUrlFailsAtOnce ==
    BaseUrlIsBlank =>
        /\ outbound = <<>>
        /\ openApiFetch = Idle /\ projectsFetch = Idle
        /\ handler \in {"idle", "responded"}
        /\ handler = "responded" =>
              /\ IsError500
              /\ response.body.error = "Missing DOKPLOY_BASE_URL environment variable."

\* C4, its case: a request under a base URL of white space was answered.
BlankBaseUrlFailsAtOnceWitness ==
    /\ handler = "responded"
    /\ envBaseUrl # Undefined
    /\ Len(envBaseUrl.chars) = 2
    /\ IsBlank(envBaseUrl.chars)
    /\ response.status = 500

(**************************************************************************)
(* Properties of the App component (Spec).                                *)
(**************************************************************************)
\* C2: App renders exactly one of the loading skeleton, the error card and
\* the content, in every state; the skeleton and the error card are never
\* rendered together.
ExactlyOneViewShown ==
    /\ Cardinality({v \in {"skeleton", "error", "content"} :
            \/ v = "skeleton" /\ SkeletonShown
            \/ v = "error" /\ ErrorCardShown
            \/ v = "content" /\ ContentShown}) = 1
    /\ ~(SkeletonShown /\ ErrorCardShown)

\* The fetch state as the specification names it.
FetchKind(st) ==
    IF st.status = "loading" THEN "loading"
    ELSE IF Truthy(st.error) THEN "idle(error)"
    ELSE "idle(success)"

\* C3: the fetch state changes only from loading to idle(success), from
\* loading to idle(error), and from idle(error) to loading by a click on
\* "Try again"; idle(success) is never left.
OnlyStatedTransitions ==
    [][ \/ FetchKind(state') = FetchKind(state)
        \/ FetchKind(state) = "loading" /\ FetchKind(state') = "idle(success)"
        \/ FetchKind(state) = "loading" /\ FetchKind(state') = "idle(error)"
        \/ FetchKind(state) = "idle(error)" /\ FetchKind(state') = "loading" /\ Retry
      ]_vars

\* The last two togglePin calls were for the same entry, which was not
\* pinned before the first.
PinnedThenUnpinned ==
    /\ Len(trail) = 2
    /\ trail[1].entryId = trail[2].entryId
    /\ ~Includes(trail[1].before, trail[1].entryId)

\* C5: pinning an entry that is not pinned and then unpinning it restores
\* the pins as they were, and with them the pinned and the regular entries,
\* in their order.
PinRoundTrip ==
    PinnedThenUnpinned =>
        LET before == trail[1].before
        IN  /\ pinnedResources = before
            /\ pinnedEntries = SelectSeq(shownEntries, LAMBDA entry : Includes(before, entry.id))
            /\ regularEntries = SelectSeq(shownEntries, LAMBDA entry : ~Includes(before, entry.id))

\* C5, its case: an entry was pinned, then unpinned, other pins being set.
PinRoundTripWitness ==
    /\ PinnedThenUnpinned
    /\ Len(trail[1].before) = 2
    /\ Len(regularEntries) > 0
    /\ Len(pinnedEntries) > 0

\* The positions of the displayed entries that are pinned under one list of
\* pins and regular under the other.
MovedBetween(before, after) ==
    {k \in 1..Len(shownEntries) :
        Includes(before, shownEntries[k].id) # Includes(after, shownEntries[k].id)}

\* C11: a togglePin call for one displayed entry moves that entry only
\* between the pinned and the regular entries: of the entries displayed, at
\* most one is pinned before the last call and regular after it, or regular
\* before and pinned after.
TogglePinMovesOnlyThatEntry ==
    Len(trail) > 0 =>
        Cardinality(MovedBetween(trail[Len(trail)].before, pinnedResources)) <= 1

=============================================================================
